---- MODULE Spec2Model ----
(***************************************************************************)
(* Model of the podcast aggregator's serverless handlers:                  *)
(*   api/search/episodes.js  (src/unnamed/part_000)                        *)
(*   api/search/podcasts.js  (src/unnamed/part_001)                        *)
(*   api/podcasts/[id].js and api/episodes.js                              *)
(*                           (src/api/search/api/podcasts/[id].js)         *)
(*                                                                         *)
(* JavaScript values are tagged records, so that undefined, null, NaN,     *)
(* numbers and strings can be told apart and compared.  Formatted strings  *)
(* are sequences of one-character strings.  Time points are counted in     *)
(* ticks, TicksPerDay to the day (a dyadic fraction of a day, so that the  *)
(* double arithmetic of the source is exact on them); averages are kept as *)
(* exact fractions num/den.                                                *)
(***************************************************************************)
EXTENDS Integers, Sequences, FiniteSets, TLC

VARIABLES
  ms,              \* formatDuration: the argument
  fmtSearch,       \* formatDuration of api/search/episodes.js: its result
  fmtList,         \* formatDuration of api/episodes.js: its result
  episodeCount,    \* estimateListeners: first argument
  genre,           \* estimateListeners: second argument
  listeners,       \* estimateListeners: its result
  episodes,        \* the raw episode records the directory returns
  episodeAnalysis, \* analyzeEpisodes(episodes) of the detail handler
  analytics,       \* generateEpisodeAnalytics(...) of the episode-list handler
  baseline,        \* the two analyses of the first request (history)
  req,             \* the current request: its handler and query parameters
  results,         \* the results array of the upstream response
  lookups,         \* podcast search: outcome of each per-result lookup
  enriched,        \* podcast search: state of each per-result promise
  pc,              \* position of the current request
  res              \* the HTTP response: status and body

vars == <<ms, fmtSearch, fmtList, episodeCount, genre, listeners, episodes,
          episodeAnalysis, analytics, baseline, req, results, lookups,
          enriched, pc, res>>

-----------------------------------------------------------------------------
(* JavaScript values *)

Undefined == [t |-> "undefined"]
Null == [t |-> "null"]
NaN == [t |-> "NaN"]
\* a string holding the characters s (a sequence of one-character strings)
Str(s) == [t |-> "string", v |-> s]
\* a string whose characters the program only passes on or compares
Text(s) == [t |-> "text", v |-> s]
\* a string holding the ISO-8601 timestamp of time point k (in ticks)
IsoDate(k) == [t |-> "date-string", v |-> k]
\* a result that has not been computed yet
Pending == [t |-> "pending"]

RECURSIVE GCD(_, _)
GCD(a, b) == IF b = 0 THEN a ELSE GCD(b, a % b)

Abs(n) == IF n < 0 THEN -n ELSE n

\* a finite number n/d (d > 0), kept in lowest terms so that equal numbers
\* are equal values
Rat(n, d) ==
  LET g == GCD(Abs(n), d)
  IN  [t |-> "number", n |-> n \div g, d |-> d \div g]

Num(n) == [t |-> "number", n |-> n, d |-> 1]

IsNum(x) == x.t = "number"
IsInt(x) == x.t = "number" /\ x.d = 1

\* x / k and x * k for a number x and an integer k > 0
\* (reduced before multiplying, so that the intermediate values stay small)
Div(x, k) ==
  LET g == GCD(Abs(x.n), k)
  IN  IF x.n = 0 THEN Rat(0, 1) ELSE Rat(x.n \div g, x.d * (k \div g))
Mul(x, k) ==
  LET g == GCD(k, x.d)
  IN  Rat(x.n * (k \div g), x.d \div g)
\* x + y
Add(x, y) ==
  LET l == (x.d * y.d) \div GCD(x.d, y.d)
  IN  Rat(x.n * (l \div x.d) + y.n * (l \div y.d), l)
\* Math.floor and Math.round (round half up) of a number
Floor(x) == x.n \div x.d
Round(x) == (2 * x.n + x.d) \div (2 * x.d)
\* x <= a/b for a number x (b > 0)
Leq(x, a, b) == x.n * b <= a * x.d
Lt(x, a, b) == x.n * b < a * x.d
Positive(x) == x.t = "number" /\ x.n > 0

\* !x for the values the model holds
Falsy(x) ==
  \/ x.t \in {"undefined", "null", "NaN"}
  \/ x.t = "number" /\ x.n = 0
  \/ x.t = "string" /\ x.v = <<>>
  \/ x.t = "text" /\ x.v = ""

\* a field of a raw record; an absent field reads as undefined
Get(r, f) == IF f \in DOMAIN r THEN r[f] ELSE Undefined

-----------------------------------------------------------------------------
(* Number.prototype.toString and String.prototype.padStart *)

Digit == <<"0", "1", "2", "3", "4", "5", "6", "7", "8", "9">>

RECURSIVE toString(_)
toString(n) ==
  IF n < 10 THEN <<Digit[n + 1]>>
  ELSE toString(n \div 10) \o <<Digit[(n % 10) + 1]>>

RECURSIVE padStart(_, _, _)
padStart(s, len, fill) ==
  IF Len(s) >= len THEN s ELSE padStart(<<fill>> \o s, len, fill)

-----------------------------------------------------------------------------
(* formatDuration, api/search/episodes.js.  The argument is undefined, null *)
(* or a number >= 0.                                                        *)

formatDurationSearch(x) ==
  IF Falsy(x) THEN <<"0", ":", "0", "0">>
  ELSE LET totalSeconds == Floor(Div(x, 1000))
           hours == totalSeconds \div 3600
           minutes == (totalSeconds % 3600) \div 60
           seconds == totalSeconds % 60
       IN  IF hours > 0
           THEN toString(hours) \o <<":">> \o padStart(toString(minutes), 2, "0")
                  \o <<":">> \o padStart(toString(seconds), 2, "0")
           ELSE toString(minutes) \o <<":">> \o padStart(toString(seconds), 2, "0")

\* a slip in the zero padding: the seconds are printed unpadded
formatDurationUnpadded(x) ==
  IF Falsy(x) THEN <<"0", ":", "0", "0">>
  ELSE LET totalSeconds == Floor(Div(x, 1000))
           hours == totalSeconds \div 3600
           minutes == (totalSeconds % 3600) \div 60
           seconds == totalSeconds % 60
       IN  IF hours > 0
           THEN toString(hours) \o <<":">> \o padStart(toString(minutes), 2, "0")
                  \o <<":">> \o toString(seconds)
           ELSE toString(minutes) \o <<":">> \o toString(seconds)

(* formatDuration, api/episodes.js *)

formatDuration(x) ==
  IF Falsy(x) THEN <<"0", ":", "0", "0">>
  ELSE LET totalSeconds == Floor(Div(x, 1000))
           hours == totalSeconds \div 3600
           minutes == (totalSeconds % 3600) \div 60
           seconds == totalSeconds % 60
       IN  IF hours > 0
           THEN toString(hours) \o <<":">> \o padStart(toString(minutes), 2, "0")
                  \o <<":">> \o padStart(toString(seconds), 2, "0")
           ELSE toString(minutes) \o <<":">> \o padStart(toString(seconds), 2, "0")

-----------------------------------------------------------------------------
(* Reading a formatted duration back *)

\* the fields of s between the colons
RECURSIVE SplitColon(_)
SplitColon(s) ==
  IF s = <<>> THEN << <<>> >>
  ELSE LET rest == SplitColon(Tail(s))
       IN  IF Head(s) = ":" THEN << <<>> >> \o rest
           ELSE << <<Head(s)>> \o Head(rest) >> \o Tail(rest)

DigitValue(c) == CHOOSE k \in 0..9 : Digit[k + 1] = c

IsDigits(s) == Len(s) > 0 /\ \A i \in 1..Len(s) : \E k \in 1..10 : Digit[k] = s[i]

RECURSIVE ParseNat(_)
ParseNat(s) ==
  IF s = <<>> THEN 0
  ELSE 10 * ParseNat(SubSeq(s, 1, Len(s) - 1)) + DigitValue(s[Len(s)])

\* no leading zero, except for "0" itself
Canonical(s) == Len(s) = 1 \/ s[1] # "0"

\* the seconds a string "H:MM:SS" or "M:SS" stands for
ParseDuration(s) ==
  LET f == SplitColon(s)
  IN  IF Len(f) = 3
      THEN 3600 * ParseNat(f[1]) + 60 * ParseNat(f[2]) + ParseNat(f[3])
      ELSE 60 * ParseNat(f[1]) + ParseNat(f[2])

\* s is the string the specification asks for a duration of totalSeconds:
\* hours:MM:SS when there is an hour or more, minutes:SS otherwise
WellFormatted(s, totalSeconds) ==
  LET f == SplitColon(s)
  IN  /\ \A i \in 1..Len(f) : IsDigits(f[i])
      /\ Canonical(f[1])
      /\ ParseDuration(s) = totalSeconds
      /\ IF totalSeconds >= 3600
         THEN /\ Len(f) = 3
              /\ Len(f[2]) = 2 /\ ParseNat(f[2]) < 60
              /\ Len(f[3]) = 2 /\ ParseNat(f[3]) < 60
         ELSE /\ Len(f) = 2
              /\ Len(f[2]) = 2 /\ ParseNat(f[2]) < 60

-----------------------------------------------------------------------------
(* Array helpers *)

\* reduce((a, b) => a + b, 0); the sum is exact, so it is taken by halves to
\* keep the evaluation shallow
RECURSIVE Sum(_)
Sum(s) ==
  IF s = <<>> THEN Num(0)
  ELSE IF Len(s) = 1 THEN s[1]
  ELSE LET half == Len(s) \div 2
       IN  Add(Sum(SubSeq(s, 1, half)), Sum(SubSeq(s, half + 1, Len(s))))

\* slice(from, to) with 0-based from (inclusive) and to (exclusive)
Slice(s, from, to) ==
  SubSeq(s, from + 1, IF to < Len(s) THEN to ELSE Len(s))

Min(a, b) == IF a <= b THEN a ELSE b

\* sort((a, b) => b - a) on time points: most recent first.  Element j goes
\* to the place after every later time point and every equal one before it.
SortDesc(s) ==
  LET n == Len(s)
      place == [j \in 1..n |->
                  1 + Cardinality({k \in 1..n :
                                     s[k] > s[j] \/ (s[k] = s[j] /\ k < j)})] \o <<>>
  IN  [i \in 1..n |-> s[CHOOSE j \in 1..n : place[j] = i]] \o <<>>

-----------------------------------------------------------------------------
(* Time *)

\* ticks of the model's clock in one day (1000 * 60 * 60 * 24 ms)
TicksPerDay == 4

\* new Date(x).getTime(): the time point of a value, NaN for an invalid date
getTime(x) ==
  CASE x.t = "date-string" -> Num(x.v)
    [] x.t = "number" -> x
    [] x.t = "null" -> Num(0)
    [] OTHER -> NaN

\* the valid time points of a list of release dates, most recent first
\* (map(new Date), filter(!isNaN(getTime())), sort((a, b) => b - a))
ValidDates(dateValues) ==
  LET valid(x) == IsNum(getTime(x))
      point(x) == getTime(x).n
      kept == SelectSeq(dateValues, valid)
  IN  SortDesc([i \in 1..Len(kept) |-> point(kept[i])])

\* a slip: the loop bound without the cap
IntervalsUncapped(dates, cap) ==
  [i \in 1..(Len(dates) - 1) |-> Rat(dates[i] - dates[i + 1], TicksPerDay)]

\* the gaps, in days, between the first min(length - 1, cap) pairs of dates
Intervals(dates, cap) ==
  [i \in 1..Min(Len(dates) - 1, cap) |-> Rat(dates[i] - dates[i + 1], TicksPerDay)]

\* let avgDaysBetween = null; if (dates.length > 1) { ... }
AvgDaysBetween(dates, cap) ==
  IF Len(dates) > 1
  THEN LET intervals == Intervals(dates, cap)
       IN  Div(Sum(intervals), Len(intervals))
  ELSE Null

\* the positive durations in seconds: map(ms / 1000).filter(d => d > 0)
Durations(millis) ==
  LET seconds(x) ==
        CASE x.t = "number" -> Div(x, 1000)
          [] x.t = "null" -> Num(0)
          [] OTHER -> NaN
  IN  SelectSeq([i \in 1..Len(millis) |-> seconds(millis[i])], Positive)

AvgDuration(millis) ==
  LET durations == Durations(millis)
  IN  IF Len(durations) > 0 THEN Div(Sum(durations), Len(durations)) ELSE Num(0)

-----------------------------------------------------------------------------
(* api/podcasts/[id].js: analyzeEpisodes, estimateSchedule *)

DetailCap == 10

estimateSchedule(avgDays) ==
  IF Falsy(avgDays) THEN "unknown"
  ELSE IF Leq(avgDays, 3, 2) THEN "daily"
  ELSE IF Leq(avgDays, 4, 1) THEN "2-3 times per week"
  ELSE IF Leq(avgDays, 9, 1) THEN "weekly"
  ELSE IF Leq(avgDays, 18, 1) THEN "biweekly"
  ELSE IF Leq(avgDays, 35, 1) THEN "monthly"
  ELSE "irregular"

analyzeEpisodes(eps) ==
  IF Len(eps) = 0 THEN Null
  ELSE LET avgDuration ==
             AvgDuration([i \in 1..Len(eps) |-> Get(eps[i], "trackTimeMillis")])
           dates == ValidDates([i \in 1..Len(eps) |-> Get(eps[i], "releaseDate")])
           avgDaysBetween == AvgDaysBetween(dates, DetailCap)
       IN  [t |-> "object",
            average_duration_seconds |-> Num(Round(avgDuration)),
            average_duration_minutes |-> Num(Round(Div(avgDuration, 60))),
            publishing_frequency_days |->
              IF Falsy(avgDaysBetween) THEN Null ELSE Num(Round(avgDaysBetween)),
            estimated_schedule |-> estimateSchedule(avgDaysBetween),
            total_analyzed |-> Num(Len(eps))]

-----------------------------------------------------------------------------
(* api/episodes.js: the episode mapping, generateEpisodeAnalytics,          *)
(* estimateFrequency                                                        *)

ListCap == 20

\* a slip in the thresholds: exclusive upper bounds
estimateFrequencyExclusive(avgDays) ==
  IF Falsy(avgDays) THEN "unknown"
  ELSE IF Lt(avgDays, 3, 2) THEN "daily"
  ELSE IF Lt(avgDays, 4, 1) THEN "multiple times per week"
  ELSE IF Lt(avgDays, 9, 1) THEN "weekly"
  ELSE IF Lt(avgDays, 18, 1) THEN "biweekly"
  ELSE IF Lt(avgDays, 35, 1) THEN "monthly"
  ELSE "irregular"

estimateFrequency(avgDays) ==
  IF Falsy(avgDays) THEN "unknown"
  ELSE IF Leq(avgDays, 3, 2) THEN "daily"
  ELSE IF Leq(avgDays, 4, 1) THEN "multiple times per week"
  ELSE IF Leq(avgDays, 9, 1) THEN "weekly"
  ELSE IF Leq(avgDays, 18, 1) THEN "biweekly"
  ELSE IF Leq(avgDays, 35, 1) THEN "monthly"
  ELSE "irregular"

\* trackId?.toString()
OptionalToString(x) ==
  IF x.t \in {"undefined", "null"} THEN Undefined
  ELSE IF x.t = "number" THEN Str(toString(x.n)) ELSE x

\* a || b
Or(a, b) == IF Falsy(a) THEN b ELSE a

\* lookupData.results.slice(1).map(ep => ({ ... }))
ListEpisode(ep) ==
  [t |-> "object",
   id |-> OptionalToString(Get(ep, "trackId")),
   title |-> Get(ep, "trackName"),
   description |-> Get(ep, "description"),
   release_date |-> Get(ep, "releaseDate"),
   duration_ms |-> Get(ep, "trackTimeMillis"),
   duration_formatted |-> Str(formatDuration(Get(ep, "trackTimeMillis"))),
   url |-> Get(ep, "trackViewUrl"),
   audio_url |-> Get(ep, "previewUrl"),
   artwork |-> Or(Get(ep, "artworkUrl600"), Get(ep, "artworkUrl160"))]

\* average_duration_formatted: formatDuration(avgDuration * 1000)
AverageDurationUnscaled(avgDuration) == Str(formatDuration(avgDuration))

AverageDurationFormatted(avgDuration) == Str(formatDuration(Mul(avgDuration, 1000)))

\* the record generateEpisodeAnalytics builds for a non-empty list
EpisodeAnalytics(eps) ==
  LET avgDuration == AvgDuration([i \in 1..Len(eps) |-> eps[i].duration_ms])
      dates == ValidDates([i \in 1..Len(eps) |-> eps[i].release_date])
      avgDaysBetween == AvgDaysBetween(dates, ListCap)
  IN  [t |-> "object",
       total_episodes |-> Num(Len(eps)),
       average_duration_seconds |-> Num(Round(avgDuration)),
       average_duration_formatted |-> AverageDurationFormatted(avgDuration),
       first_episode_date |->
         IF Len(dates) > 0 THEN IsoDate(dates[Len(dates)]) ELSE Null,
       latest_episode_date |->
         IF Len(dates) > 0 THEN IsoDate(dates[1]) ELSE Null,
       average_days_between_episodes |->
         IF Falsy(avgDaysBetween) THEN Null ELSE Num(Round(avgDaysBetween)),
       publishing_frequency |-> estimateFrequency(avgDaysBetween)]

\* a slip: no analytics when no episode has a positive duration
generateEpisodeAnalyticsNoDurations(eps) ==
  IF Durations([i \in 1..Len(eps) |-> eps[i].duration_ms]) = <<>> THEN Null
  ELSE EpisodeAnalytics(eps)

generateEpisodeAnalytics(eps) ==
  IF Len(eps) = 0 THEN Null ELSE EpisodeAnalytics(eps)

-----------------------------------------------------------------------------
(* The parts of the state a specification leaves alone *)

FormatIdle == ms = Undefined /\ fmtSearch = Pending /\ fmtList = Pending

ListenersIdle == episodeCount = Undefined /\ genre = Undefined /\ listeners = Pending

AnalysisIdle ==
  episodes = <<>> /\ episodeAnalysis = Pending /\ analytics = Pending
    /\ baseline = Pending

NoRequest == [handler |-> "none"]

HandlerIdle ==
  req = NoRequest /\ results = Pending /\ lookups = <<>> /\ enriched = <<>>
    /\ pc = "idle" /\ res = Pending

formatVars == <<ms, fmtSearch, fmtList>>
listenerVars == <<episodeCount, genre, listeners>>
analysisVars == <<episodes, episodeAnalysis, analytics, baseline>>
handlerVars == <<req, results, lookups, enriched, pc, res>>

-----------------------------------------------------------------------------
(* SpecFormat: the two copies of formatDuration applied to one argument *)

MaxHours == 2

\* durations in ms: every hour up to MaxHours, minutes and seconds with one and
\* two digits, and a remainder of milliseconds; 65000 and 3725000 are among them
MsSamples ==
  { ((h * 60 + m) * 60 + sec) * 1000 + r :
      h \in 0..MaxHours, m \in {0, 1, 2, 9, 10, 59}, sec \in {0, 5, 9, 10, 59},
      r \in {0, 1, 999} }

MsInputs ==
  {Undefined, Null} \cup {Num(k) : k \in MsSamples}
    \cup {Num(36000000), Num(360000000), Rat(1, 2), Rat(130001, 2)}

InitFormat ==
  /\ ms \in MsInputs
  /\ fmtSearch = Pending
  /\ fmtList = Pending
  /\ ListenersIdle /\ AnalysisIdle /\ HandlerIdle

\* api/search/episodes.js: formatDuration(ms)
FormatSearch ==
  /\ fmtSearch = Pending
  /\ fmtSearch' = Str(formatDurationSearch(ms))
  /\ UNCHANGED <<ms, fmtList, listenerVars, analysisVars, handlerVars>>

\* api/episodes.js: formatDuration(ms)
FormatList ==
  /\ fmtList = Pending
  /\ fmtList' = Str(formatDuration(ms))
  /\ UNCHANGED <<ms, fmtSearch, listenerVars, analysisVars, handlerVars>>

NextFormat == FormatSearch \/ FormatList

SpecFormat == InitFormat /\ [][NextFormat]_vars

\* C1: formatDuration returns "0:00" for a falsy argument; for a positive one
\* it returns hours:MM:SS when floor(ms/1000) holds an hour or more and
\* minutes:SS otherwise, the fields being the hours, minutes and seconds of
\* floor(ms/1000) with minutes and seconds below 60 and padded to two digits;
\* 65000 gives "1:05" and 3725000 gives "1:02:05"; the two copies agree.
C1_FormatDuration ==
  /\ \A out \in {fmtSearch, fmtList} :
       out # Pending =>
         /\ Falsy(ms) => out = Str(<<"0", ":", "0", "0">>)
         /\ Positive(ms) => WellFormatted(out.v, ms.n \div (ms.d * 1000))
         /\ ms = Num(65000) => out = Str(<<"1", ":", "0", "5">>)
         /\ ms = Num(3725000) => out = Str(<<"1", ":", "0", "2", ":", "0", "5">>)
  /\ (fmtSearch # Pending /\ fmtList # Pending) => fmtSearch = fmtList

C1_Witness ==
  /\ ms = Num(3725000)
  /\ fmtSearch = Str(<<"1", ":", "0", "2", ":", "0", "5">>)
  /\ fmtList = Str(<<"1", ":", "0", "2", ":", "0", "5">>)

-----------------------------------------------------------------------------
(* SpecAnalytics: the two episode analyses applied to one list of raw       *)
(* episodes                                                                 *)

MaxEpisodes == 3
MaxGapDays == 36

\* marks a field left out of a generated record
Absent == [t |-> "absent"]

Garbage == Str(<<"n", "/", "a">>)

RawEpisode(date, millis) ==
  LET value(f) == IF f = "releaseDate" THEN date ELSE millis
  IN  [f \in {g \in {"releaseDate", "trackTimeMillis"} : value(g) # Absent} |->
         value(f)]

SeqsUpTo(S, n) == UNION {[1..k -> S] : k \in 0..n}

\* lists that vary the release dates: absent, unparseable, equal, close, apart
DateKinds ==
  {Absent, Garbage, IsoDate(0), IsoDate(4 * TicksPerDay),
   IsoDate(4 * TicksPerDay + 1)}

DateLists == SeqsUpTo({RawEpisode(d, Num(65000)) : d \in DateKinds}, MaxEpisodes)

\* lists that vary the durations: absent, null, zero, below and above a second
MillisKinds ==
  {Absent, Null, Num(0), Num(999), Num(1500), Num(65000), Num(3725000)}

DurationLists ==
  SeqsUpTo({RawEpisode(d, m) : d \in {Absent, IsoDate(0)}, m \in MillisKinds},
           MaxEpisodes)

Perms(n) == {p \in [1..n -> 1..n] : \A i, j \in 1..n : p[i] = p[j] => i = j}

\* n episodes released exactly d days apart, in the input order p
SpacedList(d, n, p) ==
  [i \in 1..n |-> RawEpisode(IsoDate((p[i] - 1) * d * TicksPerDay), Num(65000))]

SpacedLists ==
  {SpacedList(d, n, p) : d \in 1..MaxGapDays, n \in {MaxEpisodes},
                         p \in Perms(MaxEpisodes)}
    \cup {SpacedList(d, 2, p) : d \in 1..MaxGapDays, p \in Perms(2)}

InitAnalytics ==
  /\ episodes \in DateLists \cup DurationLists \cup SpacedLists
  /\ episodeAnalysis = Pending
  /\ analytics = Pending
  /\ baseline = Pending
  /\ FormatIdle /\ ListenersIdle /\ HandlerIdle

\* api/podcasts/[id].js: const episodeAnalysis = analyzeEpisodes(episodes)
AnalyzeDetail ==
  /\ episodeAnalysis = Pending
  /\ episodeAnalysis' = analyzeEpisodes(episodes)
  /\ UNCHANGED <<episodes, analytics, baseline, formatVars, listenerVars, handlerVars>>

\* api/episodes.js: the episode mapping, then generateEpisodeAnalytics(episodes)
AnalyzeList ==
  /\ analytics = Pending
  /\ analytics' =
       generateEpisodeAnalytics([i \in 1..Len(episodes) |-> ListEpisode(episodes[i])])
  /\ UNCHANGED <<episodes, episodeAnalysis, baseline, formatVars, listenerVars,
                 handlerVars>>

NextAnalytics == AnalyzeDetail \/ AnalyzeList

SpecAnalytics == InitAnalytics /\ [][NextAnalytics]_vars

\* the number of episodes whose release date parses to a valid time point
NumValidDates(eps) ==
  Cardinality({i \in 1..Len(eps) : IsNum(getTime(Get(eps[i], "releaseDate")))})

KnownLabels(perWeek) == {"daily", perWeek, "weekly", "biweekly", "monthly", "irregular"}

\* C2: in both analyses the frequency estimate is (null, "unknown") exactly
\* when fewer than 2 release dates are valid; with 2 or more valid dates the
\* average is not null and the label is one of the six cadence labels.
C2_UnknownIffFewDates ==
  /\ episodeAnalysis.t = "object" =>
       /\ (episodeAnalysis.publishing_frequency_days = Null
             /\ episodeAnalysis.estimated_schedule = "unknown")
            <=> NumValidDates(episodes) < 2
       /\ NumValidDates(episodes) >= 2 =>
            /\ episodeAnalysis.publishing_frequency_days # Null
            /\ episodeAnalysis.estimated_schedule \in KnownLabels("2-3 times per week")
  /\ analytics.t = "object" =>
       /\ (analytics.average_days_between_episodes = Null
             /\ analytics.publishing_frequency = "unknown")
            <=> NumValidDates(episodes) < 2
       /\ NumValidDates(episodes) >= 2 =>
            /\ analytics.average_days_between_episodes # Null
            /\ analytics.publishing_frequency \in KnownLabels("multiple times per week")

\* the episodes all carry a timestamp, and their time points are n >= 2
\* points exactly d days apart
EvenlySpaced(eps, d) ==
  LET points == {getTime(Get(eps[i], "releaseDate")).n : i \in 1..Len(eps)}
  IN  /\ Len(eps) >= 2
      /\ \A i \in 1..Len(eps) : Get(eps[i], "releaseDate").t = "date-string"
      /\ Cardinality(points) = Len(eps)
      /\ \E first \in points :
           points = {first + k * d * TicksPerDay : k \in 0..(Len(eps) - 1)}

\* the label of an average of d whole days, by inclusive upper bounds
Bucket(d, perWeek) ==
  IF d <= 1 THEN "daily"
  ELSE IF d <= 4 THEN perWeek
  ELSE IF d <= 9 THEN "weekly"
  ELSE IF d <= 18 THEN "biweekly"
  ELSE IF d <= 35 THEN "monthly"
  ELSE "irregular"

\* C3: for 2 or more episodes released exactly d days apart, in any input
\* order, the reported average is d and the label is the bucket of d
\* (7 days apart: average 7, "weekly").
C3_EvenSpacing ==
  \A d \in 1..(MaxGapDays + 1) :
    EvenlySpaced(episodes, d) =>
      /\ episodeAnalysis.t = "object" =>
           /\ episodeAnalysis.publishing_frequency_days = Num(d)
           /\ episodeAnalysis.estimated_schedule = Bucket(d, "2-3 times per week")
      /\ analytics.t = "object" =>
           /\ analytics.average_days_between_episodes = Num(d)
           /\ analytics.publishing_frequency = Bucket(d, "multiple times per week")
           /\ d = 7 => analytics.publishing_frequency = "weekly"

\* 3 episodes a week apart, handed over oldest first, analysed by both
C3_Witness ==
  /\ EvenlySpaced(episodes, 7)
  /\ Len(episodes) = 3
  /\ episodes[1].releaseDate.v < episodes[2].releaseDate.v
  /\ episodeAnalysis.t = "object" /\ episodeAnalysis.estimated_schedule = "weekly"
  /\ analytics.t = "object" /\ analytics.average_days_between_episodes = Num(7)

\* the durations of the list that are numbers above 0, in ms
PositiveMillis(eps) ==
  SelectSeq([i \in 1..Len(eps) |-> Get(eps[i], "trackTimeMillis")], Positive)

RECURSIVE TotalMillis(_)
TotalMillis(s) == IF s = <<>> THEN 0 ELSE Head(s).n + TotalMillis(Tail(s))

\* C8: each analysis is null if and only if the episode list is empty; a
\* non-empty list with no positive duration has average duration 0, and one
\* with no valid date has null date fields.
C8_NullIffEmpty ==
  /\ episodeAnalysis # Pending =>
       /\ episodeAnalysis = Null <=> Len(episodes) = 0
       /\ episodeAnalysis # Null =>
            /\ episodeAnalysis.t = "object"
            /\ PositiveMillis(episodes) = <<>> =>
                 episodeAnalysis.average_duration_seconds = Num(0)
            /\ NumValidDates(episodes) = 0 =>
                 episodeAnalysis.publishing_frequency_days = Null
  /\ analytics # Pending =>
       /\ analytics = Null <=> Len(episodes) = 0
       /\ analytics # Null =>
            /\ analytics.t = "object"
            /\ PositiveMillis(episodes) = <<>> =>
                 analytics.average_duration_seconds = Num(0)
            /\ NumValidDates(episodes) = 0 =>
                 /\ analytics.first_episode_date = Null
                 /\ analytics.latest_episode_date = Null
                 /\ analytics.average_days_between_episodes = Null

\* a non-empty list without any positive duration or valid date, analysed
C8_Witness ==
  /\ Len(episodes) > 0
  /\ PositiveMillis(episodes) = <<>>
  /\ NumValidDates(episodes) = 0
  /\ episodeAnalysis.t = "object"
  /\ analytics.t = "object"

\* C10: in the analytics of generateEpisodeAnalytics the formatted average,
\* read back as seconds, is the floor of the mean of the positive durations,
\* average_duration_seconds is that mean rounded to nearest, the two differ by
\* at most 1, and both are 0 / "0:00" when no duration is positive.
C10_FormattedWithinOneSecond ==
  analytics.t = "object" =>
    LET positive == PositiveMillis(episodes)
        total == TotalMillis(positive)
        count == Len(positive)
        seconds == analytics.average_duration_seconds.n
        formatted == analytics.average_duration_formatted.v
    IN  IF count = 0
        THEN seconds = 0 /\ formatted = <<"0", ":", "0", "0">>
        ELSE /\ ParseDuration(formatted) = total \div (1000 * count)
             /\ seconds = (2 * total + 1000 * count) \div (2000 * count)
             /\ seconds - ParseDuration(formatted) \in {0, 1}

\* a mean of 1.5 s: formatted "0:01", average_duration_seconds 2
C10_Witness ==
  /\ analytics.t = "object"
  /\ TotalMillis(PositiveMillis(episodes)) = 1500 * Len(PositiveMillis(episodes))
  /\ Len(PositiveMillis(episodes)) > 0
  /\ analytics.average_duration_seconds = Num(2)
  /\ analytics.average_duration_formatted = Str(<<"0", ":", "0", "1">>)

-----------------------------------------------------------------------------
(* SpecWindow: the directory's episode list of one podcast changes between  *)
(* requests, but only in release dates older than the (cap + 1)-th most     *)
(* recent one; each request analyses the list as it then is.                *)

MaxChanges == 2
MaxBatch == 4

\* the gaps a change can open, in days
OlderGaps == {1, 1000}

\* n episodes, most recent first, released exactly d days apart
RecentList(d, n) ==
  [i \in 1..n |->
     RawEpisode(IsoDate((n + 1000 - i) * d * TicksPerDay), Num(65000))]

TimeOf(ep) == getTime(Get(ep, "releaseDate")).n

AllDates(eps) == ValidDates([i \in 1..Len(eps) |-> Get(eps[i], "releaseDate")])

\* the (cap + 1)-th most recent release date: the oldest one an average over
\* cap gaps can read
WindowEdge(eps, cap) ==
  CHOOSE k \in {TimeOf(eps[i]) : i \in 1..Len(eps)} :
    /\ Cardinality({j \in 1..Len(eps) : TimeOf(eps[j]) > k}) < cap + 1
    /\ Cardinality({j \in 1..Len(eps) : TimeOf(eps[j]) >= k}) >= cap + 1

Oldest(eps) ==
  CHOOSE k \in {TimeOf(eps[i]) : i \in 1..Len(eps)} :
    \A j \in 1..Len(eps) : k <= TimeOf(eps[j])

\* count episodes, the first gap days older than the oldest of eps and the
\* others a day apart
OlderBatch(eps, gap, count) ==
  [i \in 1..count |->
     RawEpisode(IsoDate(Oldest(eps) - (gap + i - 1) * TicksPerDay), Num(65000))]

\* the indexes of the episodes released at time point k
IndexesAt(eps, k) == {i \in 1..Len(eps) : TimeOf(eps[i]) = k}

RemoveAt(eps, i) == SubSeq(eps, 1, i - 1) \o SubSeq(eps, i + 1, Len(eps))

NoBaseline == [detail |-> Pending, list |-> Pending, changes |-> 0]

InitWindow ==
  /\ episodes \in {RecentList(d, n) : d \in {1, 7}, n \in {DetailCap + 1, ListCap + 1}}
  /\ episodeAnalysis = Pending
  /\ analytics = Pending
  /\ baseline = NoBaseline
  /\ FormatIdle /\ ListenersIdle /\ HandlerIdle

\* a request to the detail endpoint: analyzeEpisodes(episodes)
WindowDetail ==
  /\ episodeAnalysis = Pending
  /\ episodeAnalysis' = analyzeEpisodes(episodes)
  /\ baseline' = IF baseline.detail = Pending
                 THEN [baseline EXCEPT !.detail = episodeAnalysis']
                 ELSE baseline
  /\ UNCHANGED <<episodes, analytics, formatVars, listenerVars, handlerVars>>

\* a request to the episode-list endpoint: generateEpisodeAnalytics(episodes)
WindowList ==
  /\ analytics = Pending
  /\ analytics' =
       generateEpisodeAnalytics([i \in 1..Len(episodes) |-> ListEpisode(episodes[i])])
  /\ baseline' = IF baseline.list = Pending
                 THEN [baseline EXCEPT !.list = analytics']
                 ELSE baseline
  /\ UNCHANGED <<episodes, episodeAnalysis, formatVars, listenerVars, handlerVars>>

\* The directory's list becomes eps.  The responses computed before are gone;
\* a change inside the episode-list window (cap = DetailCap on a list whose
\* change reaches its 21 most recent dates) also ends the list baseline.
Changed(eps, cap) ==
  /\ baseline.changes < MaxChanges
  /\ episodes' = eps
  /\ episodeAnalysis' = Pending
  /\ analytics' = Pending
  /\ baseline' =
       [baseline EXCEPT
          !.changes = @ + 1,
          !.list = IF cap = ListCap THEN @ ELSE Pending]
  /\ UNCHANGED <<formatVars, listenerVars, handlerVars>>

\* episodes older than every listed one appear: one, or MaxBatch at once
AddOlder ==
  \E cap \in {DetailCap, ListCap}, gap \in OlderGaps, count \in {1, MaxBatch} :
    /\ Len(episodes) >= cap + 1
    /\ Changed(episodes \o OlderBatch(episodes, gap, count), cap)

\* the oldest episode, older than the window's edge, disappears
RemoveOlder ==
  \E cap \in {DetailCap, ListCap} :
    /\ Len(episodes) > cap + 1
    /\ Oldest(episodes) < WindowEdge(episodes, cap)
    /\ \E i \in IndexesAt(episodes, Oldest(episodes)) :
         Changed(RemoveAt(episodes, i), cap)

\* the release date of an episode older than the window's edge is changed to
\* another date older than the edge: just beyond it, or much older
ChangeOlder ==
  \E cap \in {DetailCap, ListCap} :
    /\ Len(episodes) > cap + 1
    /\ Oldest(episodes) < WindowEdge(episodes, cap)
    /\ \E i \in IndexesAt(episodes, Oldest(episodes)),
          k \in {WindowEdge(episodes, cap) - 1,
                 Oldest(episodes) - 1000 * TicksPerDay} :
         /\ k # Oldest(episodes)
         /\ Changed([episodes EXCEPT ![i] = RawEpisode(IsoDate(k), Num(65000))], cap)

NextWindow == WindowDetail \/ WindowList \/ AddOlder \/ RemoveOlder \/ ChangeOlder

SpecWindow == InitWindow /\ [][NextWindow]_vars

\* C4: the average and the label read only the gaps between the cap + 1 most
\* recent dates (cap 10 in analyzeEpisodes, 20 in generateEpisodeAnalytics):
\* after any changes to older dates each analysis reports the average and the
\* label it reported before them.
C4_OlderDatesIgnored ==
  /\ (episodeAnalysis.t = "object" /\ baseline.detail.t = "object") =>
       /\ episodeAnalysis.publishing_frequency_days
            = baseline.detail.publishing_frequency_days
       /\ episodeAnalysis.estimated_schedule = baseline.detail.estimated_schedule
  /\ (analytics.t = "object" /\ baseline.list.t = "object") =>
       /\ analytics.average_days_between_episodes
            = baseline.list.average_days_between_episodes
       /\ analytics.publishing_frequency = baseline.list.publishing_frequency

\* 21 episodes a day apart, analysed, to which a gap of 1000 days at pair 21
\* and MaxBatch older episodes were then added; analysed again, both analyses
\* report 1 day as before
C4_Witness ==
  /\ Len(episodes) = ListCap + 1 + MaxBatch
  /\ LET dates == AllDates(episodes)
     IN  /\ \A i \in 1..ListCap : dates[i] - dates[i + 1] = TicksPerDay
         /\ dates[ListCap + 1] - dates[ListCap + 2] = 1000 * TicksPerDay
  /\ baseline.list.t = "object"
  /\ baseline.detail.t = "object"
  /\ baseline.changes = 1
  /\ analytics.t = "object"
  /\ analytics.average_days_between_episodes = Num(1)
  /\ analytics.publishing_frequency = "daily"
  /\ episodeAnalysis.t = "object"
  /\ episodeAnalysis.publishing_frequency_days = Num(1)

-----------------------------------------------------------------------------
(* api/search/podcasts.js: estimateListeners *)

DefaultMultiplier == 4000

\* baseMultiplier[genre]: an own entry, a member inherited from
\* Object.prototype (a truthy value that is not a number), or undefined
baseMultiplier(g) ==
  IF g.t # "text" THEN Undefined
  ELSE CASE g.v = "True Crime" -> Num(15000)
         [] g.v = "News" -> Num(12000)
         [] g.v = "Comedy" -> Num(10000)
         [] g.v = "Business" -> Num(8000)
         [] g.v = "Technology" -> Num(7000)
         [] g.v = "Sports" -> Num(9000)
         [] g.v = "Health & Fitness" -> Num(6000)
         [] g.v = "Education" -> Num(5000)
         [] g.v = "Society & Culture" -> Num(5500)
         [] g.v = "default" -> Num(DefaultMultiplier)
         [] g.v \in {"constructor", "toString"} -> [t |-> "function"]
         [] OTHER -> Undefined

\* x / 100 for the values a count can hold
Hundredth(x) ==
  CASE x.t = "number" -> Div(x, 100)
    [] x.t = "null" -> Num(0)
    [] OTHER -> NaN

\* Math.min(x, 5)
MinFive(x) == IF x.t # "number" THEN NaN ELSE IF Leq(x, 5, 1) THEN x ELSE Num(5)

\* Math.floor(multiplier * (1 + episodeFactor)).  On the counts the model
\* draws (multiples of 25, and counts of 500 or more) the double arithmetic
\* of the source is exact.
estimateListeners(count, g) ==
  LET multiplier == Or(baseMultiplier(g), Num(DefaultMultiplier))
      episodeFactor == MinFive(Hundredth(count))
  IN  IF multiplier.t # "number" \/ episodeFactor.t # "number" THEN NaN
      ELSE Num(Floor(Mul(Add(Num(1), episodeFactor), multiplier.n)))

-----------------------------------------------------------------------------
(* SpecListeners: estimateListeners applied to one count and one genre *)

MaxCount == 600

Counts ==
  {Undefined, Null} \cup {Num(c) : c \in {k \in 0..MaxCount : k % 25 = 0 \/ k >= 500}}

TableGenres ==
  {"True Crime", "News", "Comedy", "Business", "Technology", "Sports",
   "Health & Fitness", "Education", "Society & Culture"}

Genres ==
  {Undefined} \cup {Text(g) : g \in TableGenres}
    \cup {Text("Unknown Genre"), Text("Fiction"), Text("comedy"), Text("constructor")}

InitListeners ==
  /\ episodeCount \in Counts
  /\ genre \in Genres
  /\ listeners = Pending
  /\ FormatIdle /\ AnalysisIdle /\ HandlerIdle

\* estimateListeners(podcast.trackCount, podcast.primaryGenreName)
EstimateListeners ==
  /\ listeners = Pending
  /\ listeners' = estimateListeners(episodeCount, genre)
  /\ UNCHANGED <<episodeCount, genre, formatVars, analysisVars, handlerVars>>

NextListeners == EstimateListeners

SpecListeners == InitListeners /\ [][NextListeners]_vars

\* the table entry the specification gives a genre, 4000 when it has none
SpecMultiplier(g) ==
  IF g.t = "text" /\ g.v \in TableGenres THEN baseMultiplier(g).n ELSE DefaultMultiplier

\* C9: for every genre and every episode count, an absent count included,
\* estimateListeners returns the integer
\* floor(multiplier * (1 + min(episodeCount / 100, 5))), multiplier being the
\* genre's table entry or 4000; the result is 6 * multiplier from 500
\* episodes on.
C9_ListenersInteger ==
  listeners # Pending =>
    /\ IsInt(listeners)
    /\ episodeCount.t = "number" =>
         /\ listeners.n =
              (SpecMultiplier(genre)
                 * (100 + (IF episodeCount.n < 500 THEN episodeCount.n ELSE 500)))
                \div 100
         /\ episodeCount.n >= 500 => listeners.n = 6 * SpecMultiplier(genre)

-----------------------------------------------------------------------------
(* The handlers.  A response is [status, body]; an exception that reaches a *)
(* handler's catch block gives the 500 response.                            *)

Arr(seq) == [t |-> "array", v |-> seq]

\* the outcome of a fetch whose request, or whose body's json(), rejects
Rejected == [t |-> "rejected"]

Response(status, body) == [status |-> status, body |-> body]

InternalError(message) == Response(500, [t |-> "object", error |-> Text(message)])

\* the upstream body cannot be read: the fetch or json() rejected, or the body
\* is the JSON null, whose .results is a TypeError
Unreadable(x) == x = Rejected \/ x = Null

\* the answers before the try block: the CORS preflight and the missing
\* parameter; Undefined when the handler goes on
Early(request, message) ==
  IF request.method = "OPTIONS" THEN Response(200, Undefined)
  ELSE IF Falsy(request.param)
  THEN Response(400, [t |-> "object", error |-> Text(message)])
  ELSE Undefined

\* x.toString() throws a TypeError on undefined and null
CanToString(x) == x.t \notin {"undefined", "null"}

\* text.substring(0, 200); the model's texts are shorter than 200 characters
Substring200(x) == x

-----------------------------------------------------------------------------
(* api/podcasts/[id].js: handler *)

DetailEpisode(ep) ==
  [t |-> "object",
   id |-> OptionalToString(Get(ep, "trackId")),
   title |-> Get(ep, "trackName"),
   description |->
     IF CanToString(Get(ep, "description"))
     THEN Or(Substring200(Get(ep, "description")), Text(""))
     ELSE Text(""),
   release_date |-> Get(ep, "releaseDate"),
   duration |-> Get(ep, "trackTimeMillis"),
   url |-> Get(ep, "trackViewUrl")]

\* The response to lookupData; estimated_metrics (a base-10 logarithm of the
\* episode count, read by no other field) is left out of the body.
PodcastDetails(request, lookupData) ==
  IF Early(request, "Podcast ID is required") # Undefined
  THEN Early(request, "Podcast ID is required")
  ELSE IF Unreadable(lookupData) THEN InternalError("Failed to fetch podcast details")
  ELSE IF Falsy(lookupData) \/ Len(lookupData.v) = 0
  THEN Response(404, [t |-> "object", error |-> Text("Podcast not found")])
  ELSE LET podcastInfo == lookupData.v[1]
           eps == Tail(lookupData.v)
           analysis == analyzeEpisodes(eps)
           recent == Slice(eps, 0, 10)
       IN  IF ~CanToString(Get(podcastInfo, "collectionId"))
           THEN InternalError("Failed to fetch podcast details")
           ELSE Response(200,
                  [t |-> "object",
                   id |-> Str(toString(Get(podcastInfo, "collectionId").n)),
                   name |-> Get(podcastInfo, "collectionName"),
                   publisher |-> Get(podcastInfo, "artistName"),
                   itunes_id |-> Get(podcastInfo, "collectionId"),
                   genres |-> Or(Get(podcastInfo, "genres"), Arr(<<>>)),
                   primary_genre |-> Get(podcastInfo, "primaryGenreName"),
                   episode_count |-> Or(Get(podcastInfo, "trackCount"), Num(Len(eps))),
                   release_date |-> Get(podcastInfo, "releaseDate"),
                   latest_episode_date |->
                     IF Len(eps) > 0 THEN Get(eps[1], "releaseDate") ELSE Undefined,
                   episode_insights |-> analysis,
                   recent_episodes |->
                     Arr([i \in 1..Len(recent) |-> DetailEpisode(recent[i])])])

-----------------------------------------------------------------------------
(* api/episodes.js: handler *)

EpisodeList(request, lookupData) ==
  IF Early(request, "podcast_id is required") # Undefined
  THEN Early(request, "podcast_id is required")
  ELSE IF Unreadable(lookupData) THEN InternalError("Failed to fetch episodes")
  ELSE IF Falsy(lookupData) \/ Len(lookupData.v) = 0
  THEN Response(404, [t |-> "object", error |-> Text("Podcast not found")])
  ELSE LET raw == Tail(lookupData.v)
           eps == [i \in 1..Len(raw) |-> ListEpisode(raw[i])]
           paginated == Slice(eps, Min(request.offset, Len(eps)),
                              request.offset + request.limit)
       IN  Response(200,
             [t |-> "object",
              total_episodes |-> Num(Len(eps)),
              offset |-> Num(request.offset),
              limit |-> Num(request.limit),
              episodes |-> Arr(paginated),
              analytics |-> generateEpisodeAnalytics(eps)])

-----------------------------------------------------------------------------
(* api/search/episodes.js: handler *)

SearchEpisode(episode) ==
  [t |-> "object",
   episode_id |-> OptionalToString(Get(episode, "trackId")),
   podcast_id |-> OptionalToString(Get(episode, "collectionId")),
   podcast_name |-> Get(episode, "collectionName"),
   title |-> Get(episode, "trackName"),
   description |-> Get(episode, "description"),
   release_date |-> Get(episode, "releaseDate"),
   duration_ms |-> Get(episode, "trackTimeMillis"),
   duration_formatted |-> Str(formatDurationSearch(Get(episode, "trackTimeMillis"))),
   audio_url |-> Or(Get(episode, "episodeUrl"), Get(episode, "previewUrl")),
   genres |-> Or(Get(episode, "genres"), Arr(<<>>)),
   primary_genre |-> Get(episode, "primaryGenreName")]

IsEpisode(item) ==
  Get(item, "kind") = Text("podcast-episode")
    \/ Get(item, "wrapperType") = Text("podcastEpisode")

\* the query of the model's searches, and the texts that hold it (in any case)
QueryText == "tech"
TextsWithQuery == {"Tech Weekly", "all about tech"}

\* x?.toLowerCase().includes(queryLower)
IncludesQuery(x) == x.t = "text" /\ x.v \in TextsWithQuery

\* The orders sort((a, b) => new Date(b.release_date) - new Date(a.release_date))
\* can leave: the stable order by time, most recent first; with an invalid date
\* the comparator yields NaN and the order is the engine's, so any order.
SortedByRelease(eps) ==
  LET n == Len(eps)
      time == [j \in 1..n |-> getTime(eps[j].release_date)] \o <<>>
      place == [j \in 1..n |->
                  1 + Cardinality({k \in 1..n :
                        time[k].n > time[j].n \/ (time[k] = time[j] /\ k < j)})]
  IN  IF \A j \in 1..n : IsNum(time[j])
      THEN {[i \in 1..n |-> eps[CHOOSE j \in 1..n : place[j] = i]]}
      ELSE {[i \in 1..n |-> eps[p[i]]] : p \in Perms(n)}

\* the responses the handler can give to data (one, but for the sort)
EpisodeSearch(request, data) ==
  IF Early(request, "Query parameter is required") # Undefined
  THEN {Early(request, "Query parameter is required")}
  ELSE IF Unreadable(data) THEN {InternalError("Failed to search episodes")}
  ELSE IF Falsy(data) \/ Len(data.v) = 0
  THEN {Response(200, [t |-> "object", results |-> Arr(<<>>), result_count |-> Num(0)])}
  ELSE LET kept == SelectSeq(data.v, IsEpisode)
           mapped == [i \in 1..Len(kept) |-> SearchEpisode(kept[i])]
           matches(ep) == IncludesQuery(ep.title) \/ IncludesQuery(ep.description)
           filtered == IF Falsy(request.podcast_id) THEN mapped
                       ELSE SelectSeq(mapped, matches)
       IN  {Response(200,
              [t |-> "object", results |-> Arr(sorted),
               result_count |-> Num(Len(sorted))]) : sorted \in SortedByRelease(filtered)}

-----------------------------------------------------------------------------
(* api/search/podcasts.js: handler *)

RecentEpisode(ep) ==
  [t |-> "object",
   id |-> OptionalToString(Get(ep, "trackId")),
   title |-> Get(ep, "trackName"),
   description |-> Get(ep, "description"),
   release_date |-> Get(ep, "releaseDate"),
   duration |-> Get(ep, "trackTimeMillis"),
   url |-> Get(ep, "trackViewUrl")]

\* podcast.genreIds?.map((id, idx) => podcast.genres?.[idx]) || []
GenresByIds(podcast) ==
  LET ids == Get(podcast, "genreIds")
      names == Get(podcast, "genres")
  IN  IF ids.t # "array" THEN Arr(<<>>)
      ELSE Arr([i \in 1..Len(ids.v) |->
                  IF names.t = "array" /\ i <= Len(names.v) THEN names.v[i]
                  ELSE Undefined])

\* the record of the try block, given the lookup's body
Enriched(podcast, lookupData) ==
  LET recentEpisodes ==
        IF lookupData.t = "array" THEN Slice(lookupData.v, 1, 6) ELSE <<>>
  IN  [t |-> "object",
       id |-> Str(toString(Get(podcast, "collectionId").n)),
       name |-> Get(podcast, "collectionName"),
       publisher |-> Get(podcast, "artistName"),
       genres |-> GenresByIds(podcast),
       primary_genre |-> Get(podcast, "primaryGenreName"),
       episode_count |-> Or(Get(podcast, "trackCount"), Num(0)),
       content_rating |-> Or(Get(podcast, "contentAdvisoryRating"), Text("clean")),
       estimated_listeners |->
         estimateListeners(Get(podcast, "trackCount"), Get(podcast, "primaryGenreName")),
       recent_episodes |->
         Arr([i \in 1..Len(recentEpisodes) |-> RecentEpisode(recentEpisodes[i])])]

\* the record of the catch block
Minimal(podcast) ==
  [t |-> "object",
   id |-> Str(toString(Get(podcast, "collectionId").n)),
   name |-> Get(podcast, "collectionName"),
   publisher |-> Get(podcast, "artistName"),
   error |-> Text("Partial data available")]

Fulfilled(value) == [t |-> "fulfilled", value |-> value]

\* How the promise of one search result settles once its lookup has: the try
\* block's record; the catch block's record when the lookup rejected or
\* podcast.collectionId.toString() threw; rejected when that call throws again
\* in the catch block.
Enrich(podcast, lookup) ==
  IF ~CanToString(Get(podcast, "collectionId")) THEN Rejected
  ELSE IF Unreadable(lookup) THEN Fulfilled(Minimal(podcast))
  ELSE Fulfilled(Enriched(podcast, lookup))

-----------------------------------------------------------------------------
(* SpecHandlers: one request to one of the four handlers, answered from     *)
(* what the directory returns; the podcast search awaits one lookup per     *)
(* search result, and the lookups settle in any order.                      *)

MaxItems == 2

Restrict(r, missing) == [f \in (DOMAIN r) \ missing |-> r[f]]

FullEpisode(k) ==
  [trackId |-> Num(1000 + k),
   trackName |-> Text("Tech Weekly"),
   description |-> Text("about cooking"),
   releaseDate |-> IsoDate(k * TicksPerDay),
   trackTimeMillis |-> Num(65000 * k),
   genres |-> Arr(<<Text("Comedy")>>),
   kind |-> Text("podcast-episode")]

OptionalEpisodeFields ==
  {"trackId", "trackTimeMillis", "releaseDate", "description", "genres"}

FullPodcast(k) ==
  [collectionId |-> Num(100 + k),
   collectionName |-> Text("Show"),
   artistName |-> Text("Host"),
   trackCount |-> Num(50),
   primaryGenreName |-> Text("Comedy"),
   genreIds |-> Arr(<<Text("1303")>>),
   genres |-> Arr(<<Text("Comedy")>>),
   kind |-> Text("podcast")]

OptionalPodcastFields == {"collectionId", "trackCount", "primaryGenreName", "genres"}

\* a record lacks none of its optional fields, one of them, or all
MissingSets(fields) == {{}, fields} \cup {{f} : f \in fields}

\* lists of n records, record i without the fields missing[i]
EpisodeLists(n) ==
  {[i \in 1..n |-> Restrict(FullEpisode(i), missing[i])] :
     missing \in [1..n -> MissingSets(OptionalEpisodeFields)]}

PodcastLists(n) ==
  {[i \in 1..n |-> Restrict(FullPodcast(i), missing[i])] :
     missing \in [1..n -> MissingSets(OptionalPodcastFields)]}

\* a lookup's body: the podcast record, then up to MaxItems episodes
LookupBodies ==
  {Rejected, Undefined, Arr(<<>>)}
    \cup {Arr(<<podcast>> \o eps) :
            podcast \in {Restrict(FullPodcast(1), missing) :
                           missing \in MissingSets(OptionalPodcastFields)},
            eps \in UNION {EpisodeLists(n) : n \in 0..MaxItems}}

\* a search's body: up to MaxItems episodes, after the podcast record or not
EpisodeSearchBodies ==
  {Rejected, Undefined}
    \cup {Arr(head \o eps) :
            head \in {<<>>, <<FullPodcast(1)>>},
            eps \in UNION {EpisodeLists(n) : n \in 0..MaxItems}}

PodcastSearchBodies ==
  {Rejected, Undefined} \cup {Arr(l) : l \in UNION {PodcastLists(n) : n \in 0..MaxItems}}

\* what the lookup for search result i can come to: a rejection, a body
\* without results, the podcast alone, or the podcast and an episode,
\* the episode's trackId naming the result it was looked up for
ItemLookups(i) ==
  {Rejected, Null, Undefined,
   Arr(<<FullPodcast(i)>>),
   Arr(<<FullPodcast(i), FullEpisode(10 * i)>>),
   Arr(<<FullPodcast(i), Restrict(FullEpisode(10 * i), {"trackTimeMillis"})>>)}

Request(handler, method, param) ==
  [handler |-> handler, method |-> method, param |-> param]

Requests(handler) ==
  {Request(handler, "OPTIONS", Undefined), Request(handler, "GET", Undefined),
   Request(handler, "GET", Text(QueryText))}

InitHandlers ==
  /\ req = NoRequest
  /\ results = Pending
  /\ lookups = <<>>
  /\ enriched = <<>>
  /\ pc = "idle"
  /\ res = Pending
  /\ FormatIdle /\ ListenersIdle /\ AnalysisIdle

Answered(request, upstream, response) ==
  /\ pc = "idle"
  /\ req' = request
  /\ results' = upstream
  /\ res' = response
  /\ pc' = "done"
  /\ UNCHANGED <<lookups, enriched, formatVars, listenerVars, analysisVars>>

\* GET /api/podcasts/[id]
Details ==
  \E request \in Requests("details"), upstream \in LookupBodies :
    Answered(request, upstream, PodcastDetails(request, upstream))

\* GET /api/episodes
Episodes ==
  \E request \in Requests("episodes"), offset \in {0, 1}, limit \in {1, 100},
     upstream \in LookupBodies :
    LET paged == [handler |-> request.handler, method |-> request.method,
                  param |-> request.param, offset |-> offset, limit |-> limit]
    IN  Answered(paged, upstream, EpisodeList(paged, upstream))

\* GET /api/search/episodes
EpisodeSearches ==
  \E request \in Requests("episodeSearch"), podcast_id \in {Undefined, Text("101")},
     upstream \in EpisodeSearchBodies :
    LET within == [handler |-> request.handler, method |-> request.method,
                   param |-> request.param, podcast_id |-> podcast_id]
    IN  \E response \in EpisodeSearch(within, upstream) :
          Answered(within, upstream, response)

\* GET /api/search/podcasts, up to Promise.all: the search is fetched and one
\* lookup per result is under way
PodcastSearchStart ==
  \E request \in Requests("podcastSearch"), upstream \in PodcastSearchBodies :
    LET early == Early(request, "Query parameter is required")
    IN  IF early # Undefined THEN Answered(request, upstream, early)
        ELSE IF Unreadable(upstream)
        THEN Answered(request, upstream, InternalError("Failed to search podcasts"))
        ELSE /\ pc = "idle"
             /\ req' = request
             /\ results' = Or(upstream, Arr(<<>>))
             /\ lookups' = [i \in 1..Len(results'.v) |-> Pending]
             /\ enriched' = [i \in 1..Len(results'.v) |-> Pending]
             /\ pc' = "enriching"
             /\ UNCHANGED <<res, formatVars, listenerVars, analysisVars>>

\* the lookup of result i settles and the async function of result i runs on
LookupSettles ==
  \E i \in 1..Len(enriched) : \E lookup \in ItemLookups(i) :
    /\ pc = "enriching"
    /\ enriched[i] = Pending
    /\ lookups' = [lookups EXCEPT ![i] = lookup]
    /\ enriched' = [enriched EXCEPT ![i] = Enrich(results.v[i], lookup)]
    /\ UNCHANGED <<req, results, pc, res, formatVars, listenerVars, analysisVars>>

\* Promise.all fulfils: every promise has, and the handler answers 200
PodcastSearchAnswers ==
  /\ pc = "enriching"
  /\ \A i \in 1..Len(enriched) : enriched[i].t = "fulfilled"
  /\ res' = Response(200,
              [t |-> "object",
               results |-> Arr([i \in 1..Len(enriched) |-> enriched[i].value]),
               result_count |-> Num(Len(enriched)),
               query |-> req.param])
  /\ pc' = "done"
  /\ UNCHANGED <<req, results, lookups, enriched, formatVars, listenerVars,
                 analysisVars>>

\* Promise.all rejects with the first promise that does, the outer catch
\* answers 500
PodcastSearchFails ==
  /\ pc = "enriching"
  /\ \E i \in 1..Len(enriched) : enriched[i] = Rejected
  /\ res' = InternalError("Failed to search podcasts")
  /\ pc' = "done"
  /\ UNCHANGED <<req, results, lookups, enriched, formatVars, listenerVars,
                 analysisVars>>

NextHandlers ==
  \/ Details
  \/ Episodes
  \/ EpisodeSearches
  \/ PodcastSearchStart
  \/ LookupSettles
  \/ PodcastSearchAnswers
  \/ PodcastSearchFails

SpecHandlers == InitHandlers /\ [][NextHandlers]_vars

\* a podcast search that went past its parameter check and got a result list
PodcastSearchDone ==
  /\ req.handler = "podcastSearch"
  /\ req.method = "GET"
  /\ ~Falsy(req.param)
  /\ pc = "done"
  /\ results.t = "array"

\* the enrichment of search result i failed: its lookup rejected or had an
\* unreadable body, or the result has no collectionId
EnrichmentFailed(i) ==
  Unreadable(lookups[i]) \/ ~CanToString(Get(results.v[i], "collectionId"))

IsMinimal(record) == Get(record, "error") = Text("Partial data available")

IsEnriched(record) ==
  "error" \notin DOMAIN record /\ Get(record, "recent_episodes").t = "array"

\* C5: in the podcast search, when the enrichment of some results fails
\* (lookup rejected, lookup body unreadable, or a result without collectionId),
\* the handler still answers 200 with one record per result, the failing
\* items as minimal records and every other item enriched, never 500.
C5_PartialFailureIsolated ==
  (PodcastSearchDone /\ Len(results.v) > 0) =>
    /\ res.status = 200
    /\ Len(res.body.results.v) = Len(results.v)
    /\ \A i \in 1..Len(results.v) :
         IF EnrichmentFailed(i) THEN IsMinimal(res.body.results.v[i])
         ELSE IsEnriched(res.body.results.v[i])

\* the trackIds of the episodes a lookup body carries
LookupEpisodeIds(lookup) ==
  IF lookup.t # "array" THEN {}
  ELSE {OptionalToString(Get(lookup.v[k], "trackId")) : k \in 2..Len(lookup.v)}

\* C6: in the podcast search, whatever the order in which the lookups
\* completed, the response lists exactly one record per upstream result in
\* the upstream order, record i built from result i and from the lookup of
\* result i only, and result_count is the number of upstream results.
C6_ResultsInUpstreamOrder ==
  PodcastSearchDone =>
    /\ res.status = 200
    /\ res.body.result_count = Num(Len(results.v))
    /\ Len(res.body.results.v) = Len(results.v)
    /\ \A i \in 1..Len(results.v) :
         LET record == res.body.results.v[i]
         IN  /\ record.id = OptionalToString(Get(results.v[i], "collectionId"))
             /\ IsEnriched(record) =>
                  {record.recent_episodes.v[k].id :
                     k \in 1..Len(record.recent_episodes.v)}
                    = LookupEpisodeIds(lookups[i])

\* a request that went past its parameter check and got a list of records
AnsweredFromRecords ==
  /\ pc = "done"
  /\ req.method = "GET"
  /\ ~Falsy(req.param)
  /\ results.t = "array"

\* the episode records of a response body, as the handler of the request
\* names them
EpisodeRecords ==
  IF res.status # 200 THEN <<>>
  ELSE IF req.handler = "episodes" THEN res.body.episodes.v
  ELSE IF req.handler = "episodeSearch" THEN res.body.results.v
  ELSE <<>>

\* C7: whatever fields the raw podcast and episode records lack (among them
\* collectionId, trackId, trackTimeMillis, releaseDate, description, genres),
\* none of the four handlers ends in its 500 path, and an episode without
\* trackTimeMillis comes out with duration_formatted "0:00".
C7_MissingFieldsTolerated ==
  AnsweredFromRecords =>
    /\ res.status # 500
    /\ \A i \in 1..Len(EpisodeRecords) :
         EpisodeRecords[i].duration_ms = Undefined
           => EpisodeRecords[i].duration_formatted = Str(<<"0", ":", "0", "0">>)

\* The part of C5 and C6 the handler keeps: a 200 answer has one record per
\* result in the upstream order, minimal where the lookup failed.
PodcastSearchOrdered ==
  (PodcastSearchDone /\ res.status = 200) =>
    /\ res.body.result_count = Num(Len(results.v))
    /\ Len(res.body.results.v) = Len(results.v)
    /\ \A i \in 1..Len(results.v) :
         /\ res.body.results.v[i] = Enrich(results.v[i], lookups[i]).value
         /\ res.body.results.v[i].id = OptionalToString(Get(results.v[i], "collectionId"))
         /\ Unreadable(lookups[i]) <=> IsMinimal(res.body.results.v[i])

\* The part of C7 the handlers keep: a 500 answer to a list of records comes
\* from a podcast record without collectionId, in the detail handler and the
\* podcast search only.
OnlyCollectionIdThrows ==
  (AnsweredFromRecords /\ res.status = 500) =>
    /\ req.handler \in {"details", "podcastSearch"}
    /\ IF req.handler = "details"
       THEN ~CanToString(Get(results.v[1], "collectionId"))
       ELSE \E i \in 1..Len(results.v) :
              ~CanToString(Get(results.v[i], "collectionId"))

====
